---- MODULE Spec2Model ----
(***************************************************************************)
(* FocusView (src/main.py): the debounced focus tracker of FocusViewApp,   *)
(* the border and blur surfaces it drives, the four-strip partition of     *)
(* NativeBlurOverlayGroup.show_outside_rect, the Qt -> Cocoa rectangle      *)
(* mapping of _QtToCocoaMapper and the window probe                        *)
(* get_active_window_geometry.  Spec is the running application; SpecFaults *)
(* adds placement calls that raise; SpecTicks, SpecGroup, SpecMapper,      *)
(* SpecSettle and SpecProbe exercise one component each over bounded       *)
(* inputs.                                                                 *)
(*                                                                         *)
(* Time is counted in milliseconds.  Handlers run to completion on the one *)
(* GUI thread and take no time; a timer fires at its deadline, and two     *)
(* timers due at the same instant fire in either order.                    *)
(***************************************************************************)
EXTENDS Integers, Sequences, FiniteSets

VARIABLES
    \* ---- FocusViewApp ----
    last_active_rect,   \* self.last_active_rect: None or a QRect
    blur_enabled,       \* self.blur_enabled
    screen_overlays,    \* self.screen_overlays: screen -> BorderOverlay
    blur_overlays,      \* self.blur_overlays: screen -> NativeBlurOverlayGroup
    animation,          \* self.animation: None or the current QPropertyAnimation
    poll_timer,         \* self.poll_timer: ms until its next timeout
    debounce_timer,     \* self.debounce_timer: single-shot, active/remaining ms
    alive,              \* self.app.exec() is running its event loop
    \* ---- history of the run (not program state) ----
    sample,             \* the rectangle (or None) the latest poll tick sampled
    since_change,       \* ms since the tick on which the sample last changed
    burst,              \* consecutive ticks, up to that one, that each changed it
    settles,            \* placement passes since the sample last changed
    cleared,            \* a poll tick has hidden everything since the last of them
    \* ---- one NativeBlurOverlayGroup driven directly ----
    screen_rect,        \* argument screen_rect of show_outside_rect
    focus_rect,         \* argument focus_rect of show_outside_rect
    group,              \* the group: its mapper and its four panels
    regions,            \* the local `padded` of the latest show_outside_rect
    group_op,           \* the latest method run on the group
    \* ---- one _QtToCocoaMapper driven directly ----
    displays,           \* the displays attached when the mapper was built
    mapper,             \* the mapper: qt_union and ns_union
    rect,               \* argument rect of qt_rect_to_ns_rect
    ns_rect,            \* None or the NSRect the latest call returned
    \* ---- get_active_window_geometry driven directly ----
    active_app,         \* NSWorkspace.activeApplication(): None or its info
    window_list,        \* CGWindowListCopyWindowInfo(...): the windows, in order
    geometry_dict,      \* None or the dict the latest call returned, as a QRect
    probe_op            \* the latest function run on them

appvars == <<last_active_rect, blur_enabled, screen_overlays, blur_overlays,
             animation, poll_timer, debounce_timer, alive>>
histvars == <<sample, since_change, burst, settles, cleared>>
groupvars == <<screen_rect, focus_rect, group, regions, group_op>>
mappervars == <<displays, mapper, rect, ns_rect>>
probevars == <<active_app, window_list, geometry_dict, probe_op>>
vars == <<appvars, histvars, groupvars, mappervars, probevars>>

----------------------------------------------------------------------------
(* Bounds of the model *)

MaxCoord == 1       \* rectangles handed to the partition start in 0..MaxCoord
MaxSize == 3        \* and are 0..MaxSize wide and high
MaxSettles == 2     \* the history counter `settles` saturates here
MaxBurst == 2       \* the history counter `burst` saturates here
MaxWindows == 2     \* the window list holds up to this many windows

(* Program constants *)

DEBOUNCE_DELAY == 200
BLUR_HOLE_PADDING == 0
PollPeriod == 100
FadeDuration == 500
NumPanels == 4
MinWindowSize == 50

----------------------------------------------------------------------------
(* Python None and optional values: None is <<>>, a value v is <<v>> *)

None == <<>>
Some(v) == <<v>>

Min(a, b) == IF a <= b THEN a ELSE b
Max(a, b) == IF a >= b THEN a ELSE b

RECURSIVE SetMin(_)
SetMin(S) == LET v == CHOOSE v \in S : TRUE
             IN IF S = {v} THEN v ELSE Min(v, SetMin(S \ {v}))
RECURSIVE SetMax(_)
SetMax(S) == LET v == CHOOSE v \in S : TRUE
             IN IF S = {v} THEN v ELSE Max(v, SetMax(S \ {v}))

----------------------------------------------------------------------------
(* QRect (Qt): x, y, width, height; right = x + width - 1, bottom likewise *)

QRect(x, y, w, h) == [x |-> x, y |-> y, w |-> w, h |-> h]
NullRect == QRect(0, 0, 0, 0)
IsNull(r) == r.w = 0 /\ r.h = 0
IsValid(r) == r.w >= 1 /\ r.h >= 1
Right(r) == r.x + r.w - 1
Bottom(r) == r.y + r.h - 1

\* C++ integer division by 2 truncates toward zero
TruncHalf(n) == IF n >= 0 THEN n \div 2 ELSE -((-n) \div 2)

\* QRect::center()
Center(r) == [x |-> TruncHalf(r.x + Right(r)), y |-> TruncHalf(r.y + Bottom(r))]

\* QRect::contains(QPoint)
Contains(r, p) == /\ r.x <= p.x /\ p.x <= Right(r)
                  /\ r.y <= p.y /\ p.y <= Bottom(r)

\* QRect::intersected(): null when either is null or they share no cell
Intersected(a, b) ==
    IF IsNull(a) \/ IsNull(b) THEN NullRect
    ELSE LET l1 == IF a.w < 0 THEN Right(a) ELSE a.x
             r1 == IF a.w < 0 THEN a.x ELSE Right(a)
             l2 == IF b.w < 0 THEN Right(b) ELSE b.x
             r2 == IF b.w < 0 THEN b.x ELSE Right(b)
             t1 == IF a.h < 0 THEN Bottom(a) ELSE a.y
             b1 == IF a.h < 0 THEN a.y ELSE Bottom(a)
             t2 == IF b.h < 0 THEN Bottom(b) ELSE b.y
             b2 == IF b.h < 0 THEN b.y ELSE Bottom(b)
         IN IF l1 > r2 \/ l2 > r1 \/ t1 > b2 \/ t2 > b1 THEN NullRect
            ELSE QRect(Max(l1, l2), Max(t1, t2),
                       Min(r1, r2) - Max(l1, l2) + 1,
                       Min(b1, b2) - Max(t1, t2) + 1)

\* QRect::adjusted(dx1, dy1, dx2, dy2)
Adjusted(r, dx1, dy1, dx2, dy2) ==
    QRect(r.x + dx1, r.y + dy1, r.w + dx2 - dx1, r.h + dy2 - dy1)

Truthy_NoneToo(opt) == opt = None \/ IsValid(opt[1])

\* truth value of `rect` in `if rect:` / `if not rect:` (None is false)
Truthy(opt) == opt # None /\ IsValid(opt[1])

----------------------------------------------------------------------------
(* The attached displays.  1 is the primary display with a menu bar, 2 sits *)
(* to its right; 3 (above) and 4 (left) are attached only when a mapper is *)
(* built for another topology.                                             *)

AllDisplays == {1, 2, 3, 4}
Screens == {1, 2}
NoScreen == 0

\* QScreen.geometry(), Qt global coordinates (origin top-left, y down)
Geometry(s) == CASE s = 1 -> QRect(0, 0, 200, 150)
                 [] s = 2 -> QRect(200, 0, 200, 150)
                 [] s = 3 -> QRect(0, -150, 200, 150)
                 [] s = 4 -> QRect(-100, 50, 100, 100)

\* QScreen.availableGeometry(): the geometry less menu bar and dock
AvailableGeometry(s) == CASE s = 1 -> QRect(0, 20, 200, 130)
                          [] s = 2 -> QRect(200, 0, 200, 150)
                          [] s = 3 -> QRect(0, -150, 200, 150)
                          [] s = 4 -> QRect(-100, 50, 100, 100)

\* NSScreen.frame(), Cocoa global coordinates (origin bottom-left, y up)
NsFrame(s) == CASE s = 1 -> QRect(0, 0, 200, 150)
                [] s = 2 -> QRect(200, 0, 200, 150)
                [] s = 3 -> QRect(0, 150, 200, 150)
                [] s = 4 -> QRect(-100, 0, 100, 100)

\* QApplication.screenAt(point): the screen whose geometry contains it
ScreenAt(p) == IF \E s \in Screens : Contains(Geometry(s), p)
               THEN CHOOSE s \in Screens : Contains(Geometry(s), p)
               ELSE NoScreen

----------------------------------------------------------------------------
(* _qt_union_geometry, _ns_union_frame and _QtToCocoaMapper *)

qt_union_geometry(screens) ==
    IF screens = {} THEN QRect(0, 0, 0, 0)
    ELSE LET min_x == SetMin({Geometry(s).x : s \in screens})
             min_y == SetMin({Geometry(s).y : s \in screens})
             max_x == SetMax({Geometry(s).x + Geometry(s).w : s \in screens})
             max_y == SetMax({Geometry(s).y + Geometry(s).h : s \in screens})
         IN QRect(min_x, min_y, max_x - min_x, max_y - min_y)

ns_union_frame(screens) ==
    IF screens = {} THEN QRect(0, 0, 0, 0)
    ELSE LET min_x == SetMin({NsFrame(s).x : s \in screens})
             min_y == SetMin({NsFrame(s).y : s \in screens})
             max_x == SetMax({NsFrame(s).x + NsFrame(s).w : s \in screens})
             max_y == SetMax({NsFrame(s).y + NsFrame(s).h : s \in screens})
         IN QRect(min_x, min_y, max_x - min_x, max_y - min_y)

\* _QtToCocoaMapper.__init__
NewMapper(screens) == [qt_union |-> qt_union_geometry(screens),
                       ns_union |-> ns_union_frame(screens)]

QtRectToNsRect_NoFlip(m, r) ==
    QRect(m.ns_union.x + (r.x - m.qt_union.x),
          m.ns_union.y + (r.y - m.qt_union.y),
          r.w, r.h)

QtRectToNsRect_NoHeight(m, r) ==
    QRect(m.ns_union.x + (r.x - m.qt_union.x),
          m.ns_union.y + ((m.qt_union.y + m.qt_union.h) - r.y),
          r.w, r.h)

\* _QtToCocoaMapper.qt_rect_to_ns_rect; the floats are integer-valued
QtRectToNsRect(m, r) ==
    LET ns_left == m.ns_union.x
        ns_bottom == m.ns_union.y
        ns_x == ns_left + (r.x - m.qt_union.x)
        qt_union_bottom == m.qt_union.y + m.qt_union.h
        ns_y == ns_bottom + (qt_union_bottom - r.y - r.h)
    IN QRect(ns_x, ns_y, r.w, r.h)

----------------------------------------------------------------------------
(* NativeBlurOverlayGroup: four NSPanels and a mapper *)

\* _create_panel: a 10 x 10 panel at the origin, ordered out
NewPanel == [visible |-> FALSE, frame |-> QRect(0, 0, 10, 10)]

\* NSPanel.orderOut_
OrderOut(panel) == [panel EXCEPT !.visible = FALSE]

\* NativeBlurOverlayGroup.__init__
NewGroup(screens) == [mapper |-> NewMapper(screens),
                      panels |-> [i \in 1..NumPanels |-> NewPanel]]

HideGroup_Skip(grp) == grp

\* NativeBlurOverlayGroup.hide
HideGroup(grp) == [grp EXCEPT !.panels = [i \in 1..NumPanels |-> OrderOut(grp.panels[i])]]

Regions_LeftFullHeight(s, f) ==
    LET focus == Intersected(f, s)
    IN IF IsNull(focus) \/ focus.w <= 0 \/ focus.h <= 0 THEN <<s>>
       ELSE << QRect(s.x, s.y, s.w, focus.y - s.y),
               QRect(s.x, focus.y + focus.h, s.w, (s.y + s.h) - (focus.y + focus.h)),
               QRect(s.x, s.y, focus.x - s.x, s.h),
               QRect(focus.x + focus.w, focus.y, (s.x + s.w) - (focus.x + focus.w), focus.h) >>

Regions_LeftBeforeBottom(s, f) ==
    LET focus == Intersected(f, s)
    IN IF IsNull(focus) \/ focus.w <= 0 \/ focus.h <= 0 THEN <<s>>
       ELSE << QRect(s.x, s.y, s.w, focus.y - s.y),
               QRect(s.x, focus.y, focus.x - s.x, focus.h),
               QRect(s.x, focus.y + focus.h, s.w, (s.y + s.h) - (focus.y + focus.h)),
               QRect(focus.x + focus.w, focus.y, (s.x + s.w) - (focus.x + focus.w), focus.h) >>

\* show_outside_rect, the list `regions`: the focus clipped to the screen,
\* then the whole screen or the top, bottom, left and right strips
Regions(s, f) ==
    LET focus == Intersected(f, s)
    IN IF IsNull(focus) \/ focus.w <= 0 \/ focus.h <= 0
       THEN <<s>>
       ELSE LET sx == s.x
                sy == s.y
                sw == s.w
                sh == s.h
                fx == focus.x
                fy == focus.y
                fw == focus.w
                fh == focus.h
                top_h == fy - sy
                bottom_y == fy + fh
                bottom_h == (sy + sh) - bottom_y
                left_w == fx - sx
                right_x == fx + fw
                right_w == (sx + sw) - right_x
            IN << QRect(sx, sy, sw, top_h),
                  QRect(sx, bottom_y, sw, bottom_h),
                  QRect(sx, fy, left_w, fh),
                  QRect(right_x, fy, right_w, fh) >>

\* show_outside_rect, the list `padded`: exactly four regions
Padded(rs) ==
    SubSeq(rs, 1, Min(NumPanels, Len(rs)))
        \o [i \in 1..Max(0, NumPanels - Len(rs)) |-> QRect(0, 0, 0, 0)]

PlacePanel_NullOnly(m, panel, region) ==
    IF IsNull(region) THEN OrderOut(panel)
    ELSE [visible |-> TRUE, frame |-> QtRectToNsRect(m, region)]

PlacePanel_KeepShown(m, panel, region) ==
    IF IsNull(region) \/ region.w <= 0 \/ region.h <= 0 THEN panel
    ELSE [visible |-> TRUE, frame |-> QtRectToNsRect(m, region)]

\* show_outside_rect, the body of the loop over zip(self._panels, padded)
PlacePanel(m, panel, region) ==
    IF IsNull(region) \/ region.w <= 0 \/ region.h <= 0
    THEN OrderOut(panel)
    ELSE [visible |-> TRUE, frame |-> QtRectToNsRect(m, region)]

EarlyReturn_Never(s, f) == FALSE

\* show_outside_rect, its guard: a null screen or focus rectangle hides all
EarlyReturn(s, f) == IsNull(s) \/ IsNull(f)

\* NativeBlurOverlayGroup.show_outside_rect
ShowOutsideRect(grp, s, f) ==
    IF EarlyReturn(s, f) THEN HideGroup(grp)
    ELSE LET padded == Padded(Regions(s, f))
         IN [grp EXCEPT !.panels =
                [i \in 1..NumPanels |-> PlacePanel(grp.mapper, grp.panels[i], padded[i])]]

----------------------------------------------------------------------------
(* BorderOverlay (a QWidget) and the fade animation *)

\* BorderOverlay.__init__: placed over its screen, not shown, opaque
NewBorderOverlay(s) == [visible |-> FALSE, geometry |-> Geometry(s), opacity |-> 100]

HideOverlay_Skip(overlay) == overlay

\* QWidget.hide()
HideOverlay(overlay) == [overlay EXCEPT !.visible = FALSE]

\* FocusViewApp.fade_overlay: a new running animation replaces self.animation
FadeOverlay(s, start, end, duration) ==
    Some([target |-> s, start |-> start, end |-> end,
          duration |-> duration, running |-> TRUE])

ReplaceAnimation_Stack(old, new) == new \o old

\* fade_overlay, `self.animation = QPropertyAnimation(...)`: the animations
\* alive afterwards, the newest first; the one self.animation named before
\* has lost its only reference and is destroyed with its fade
ReplaceAnimation(old, new) == new

----------------------------------------------------------------------------
(* QTimer *)

StoppedTimer == [active |-> FALSE, remaining |-> 0]

QTimerStart_KeepDeadline(timer, msec) ==
    IF timer.active THEN timer ELSE [active |-> TRUE, remaining |-> msec]

\* QTimer.start(msec): starts the timer, restarting it when it is running
QTimerStart(timer, msec) == [active |-> TRUE, remaining |-> msec]

\* the debounce timer once it has timed out: setSingleShot(True), so stopped
AfterTimeout(timer) == StoppedTimer

----------------------------------------------------------------------------
(* get_active_window_geometry as the tracker sees it: None, or the bounds   *)
(* of a window at least 50 x 50.  The windows the focus moves between:      *)

WindowRects ==
    { QRect(40, 50, 100, 60),     \* inside display 1
      QRect(0, 20, 200, 130),     \* exactly the usable area of display 1
      QRect(0, 0, 200, 150),      \* covers display 1, menu bar included
      QRect(150, 30, 100, 60),    \* straddles displays 1 and 2, centre on 1
      QRect(230, 40, 120, 80),    \* inside display 2
      QRect(380, 140, 60, 60) }   \* centre beyond every display

ProbeResults == {None} \cup {Some(r) : r \in WindowRects}

(* get_active_window_geometry itself.  Core Graphics reports a window's     *)
(* bounds as floats: they are held here in halves of a unit, 101 for 50.5.  *)

\* int(v) of a float held in halves: truncation toward zero
ToInt(halves) == TruncHalf(halves)

TooSmall_Both(bounds) ==
    bounds.Width < 2 * MinWindowSize /\ bounds.Height < 2 * MinWindowSize

\* the test `bounds["Width"] < 50 or bounds["Height"] < 50`
TooSmall(bounds) ==
    bounds.Width < 2 * MinWindowSize \/ bounds.Height < 2 * MinWindowSize

\* the loop over window_list from its i-th window on
RECURSIVE ScanWindows(_, _, _)
ScanWindows(pid, list, i) ==
    IF i > Len(list) THEN None
    ELSE LET window == list[i]
         IN IF window.kCGWindowOwnerPID # pid THEN ScanWindows(pid, list, i + 1)
            ELSE IF window.kCGWindowLayer # 0 THEN ScanWindows(pid, list, i + 1)
            ELSE IF window.kCGWindowAlpha = 0 THEN ScanWindows(pid, list, i + 1)
            ELSE IF TooSmall(window.kCGWindowBounds) THEN ScanWindows(pid, list, i + 1)
            ELSE LET bounds == window.kCGWindowBounds
                 IN Some(QRect(ToInt(bounds.X), ToInt(bounds.Y),
                               ToInt(bounds.Width), ToInt(bounds.Height)))

\* get_active_window_geometry
GetActiveWindowGeometry(app_info, list) ==
    IF app_info = None THEN None
    ELSE IF app_info[1].pid = None THEN None
    ELSE IF list = <<>> THEN None
    ELSE ScanWindows(app_info[1].pid[1], list, 1)

----------------------------------------------------------------------------
(* FocusViewApp *)

\* every border and blur surface of every display is hidden
AllHidden ==
    \A s \in Screens :
        /\ ~screen_overlays[s].visible
        /\ \A i \in 1..NumPanels : ~blur_overlays[s].panels[i].visible

\* __init__, setup_overlays, setup_timers: nothing shown, poll timer started
AppInit ==
    /\ last_active_rect = None
    /\ blur_enabled \in BOOLEAN
    /\ screen_overlays = [s \in Screens |-> NewBorderOverlay(s)]
    /\ blur_overlays = [s \in Screens |-> NewGroup(Screens)]
    /\ animation = None
    /\ poll_timer = PollPeriod
    /\ debounce_timer = StoppedTimer
    /\ alive = TRUE
    /\ sample = None
    /\ since_change = 0
    /\ burst = 0
    /\ settles = 0
    /\ cleared = FALSE

\* the directly driven group and mapper, left as constructed
GroupIdle ==
    /\ screen_rect = NullRect
    /\ focus_rect = NullRect
    /\ group = NewGroup(Screens)
    /\ regions = <<>>
    /\ group_op = "init"

MapperIdle ==
    /\ displays = Screens
    /\ mapper = NewMapper(Screens)
    /\ rect = NullRect
    /\ ns_rect = None

\* the directly driven probe, not yet called
ProbeIdle ==
    /\ active_app = None
    /\ window_list = <<>>
    /\ geometry_dict = None
    /\ probe_op = "init"

\* the history variables saturate
AgeCap == DEBOUNCE_DELAY + PollPeriod

Changed_Always(current_rect, last) == TRUE

\* check_for_window_changes, its test `current_rect != self.last_active_rect`
Changed(current_rect, last) == current_rect # last

\* the poll timer's timeout: check_for_window_changes
CheckForWindowChanges ==
    /\ alive
    /\ poll_timer = 0
    /\ poll_timer' = PollPeriod
    /\ \E current_rect \in ProbeResults :
        /\ sample' = current_rect
        /\ since_change' = IF current_rect # sample THEN 0 ELSE since_change
        /\ burst' = IF current_rect = sample THEN burst
                     ELSE IF burst > 0 /\ since_change = PollPeriod
                          THEN Min(burst + 1, MaxBurst)
                          ELSE 1
        /\ settles' = IF current_rect # sample THEN 0 ELSE settles
        /\ cleared' = (cleared \/ Changed(current_rect, last_active_rect))
        /\ IF Changed(current_rect, last_active_rect)
           THEN /\ last_active_rect' = current_rect
                /\ screen_overlays' = [s \in Screens |-> HideOverlay(screen_overlays[s])]
                /\ blur_overlays' = [s \in Screens |-> HideGroup(blur_overlays[s])]
                /\ debounce_timer' = IF Truthy(current_rect)
                                     THEN QTimerStart(debounce_timer, DEBOUNCE_DELAY)
                                     ELSE debounce_timer
           ELSE UNCHANGED <<last_active_rect, screen_overlays, blur_overlays,
                            debounce_timer>>
    /\ UNCHANGED <<blur_enabled, animation, alive>>
    /\ UNCHANGED <<groupvars, mappervars, probevars>>

\* show_border_at_final_position, the rectangle the blur hole is cut for
FocusRect(r) ==
    IF BLUR_HOLE_PADDING # 0
    THEN Adjusted(r, -BLUR_HOLE_PADDING, -BLUR_HOLE_PADDING,
                  BLUR_HOLE_PADDING, BLUR_HOLE_PADDING)
    ELSE r

ActiveScreen_TopLeft(r) == ScreenAt([x |-> r.x, y |-> r.y])

\* show_border_at_final_position, `active_screen`
ActiveScreen(r) == ScreenAt(Center(r))

\* show_border_at_final_position, what its loop leaves of the border overlays
SettledBorders(overlays, r) ==
    [s \in Screens |->
        IF s = ActiveScreen(r)
        THEN [visible |-> TRUE, geometry |-> r, opacity |-> 0]
        ELSE HideOverlay(overlays[s])]

\* show_border_at_final_position, what its loop leaves of the blur groups
SettledBlur(groups, r, enabled) ==
    [s \in Screens |->
        IF s = ActiveScreen(r)
        THEN IF enabled
             THEN ShowOutsideRect(groups[s], AvailableGeometry(s), FocusRect(r))
             ELSE groups[s]
        ELSE HideGroup(groups[s])]

\* show_border_at_final_position, the fade it starts on the active screen
SettledAnimation(anim, r) ==
    IF ActiveScreen(r) # NoScreen
    THEN ReplaceAnimation(anim, FadeOverlay(ActiveScreen(r), 0, 100, FadeDuration))
    ELSE anim

\* the body of show_border_at_final_position
ShowBorderBody ==
    IF ~Truthy(last_active_rect)
    THEN UNCHANGED <<screen_overlays, blur_overlays, animation, settles, cleared>>
    ELSE LET r == last_active_rect[1]
         IN /\ screen_overlays' = SettledBorders(screen_overlays, r)
            /\ blur_overlays' = SettledBlur(blur_overlays, r, blur_enabled)
            /\ animation' = SettledAnimation(animation, r)
            /\ settles' = Min(settles + 1, MaxSettles)
            /\ cleared' = FALSE

\* the debounce timer's timeout: show_border_at_final_position
ShowBorderAtFinalPosition ==
    /\ alive
    /\ debounce_timer.active
    /\ debounce_timer.remaining = 0
    /\ debounce_timer' = AfterTimeout(debounce_timer)
    /\ ShowBorderBody
    /\ UNCHANGED <<last_active_rect, blur_enabled, poll_timer, alive, sample,
                   since_change, burst>>
    /\ UNCHANGED <<groupvars, mappervars, probevars>>

\* toggle_blur without its `else` branch
ToggleBlur_NoRefresh ==
    LET checked == ~blur_enabled
    IN /\ alive
       /\ blur_enabled' = checked
       /\ IF ~checked
          THEN /\ blur_overlays' = [s \in Screens |-> HideGroup(blur_overlays[s])]
               /\ UNCHANGED last_active_rect
          ELSE UNCHANGED <<last_active_rect, blur_overlays>>
       /\ UNCHANGED <<screen_overlays, animation, poll_timer, debounce_timer, alive>>
       /\ UNCHANGED <<histvars, groupvars, mappervars, probevars>>

\* the tray action's triggered(checked): toggle_blur; the action is checkable
\* and starts checked as blur_enabled, so checked is the opposite of it
ToggleBlur ==
    LET checked == ~blur_enabled
    IN /\ alive
       /\ blur_enabled' = checked
       /\ IF ~checked
          THEN /\ blur_overlays' = [s \in Screens |-> HideGroup(blur_overlays[s])]
               /\ UNCHANGED last_active_rect
          ELSE /\ last_active_rect' = None
               /\ UNCHANGED blur_overlays
       /\ UNCHANGED <<screen_overlays, animation, poll_timer, debounce_timer, alive>>
       /\ UNCHANGED <<histvars, groupvars, mappervars, probevars>>

\* the running fade reaches its end value
AnimationFinished ==
    /\ alive
    /\ animation # None
    /\ animation[1].running
    /\ animation' = Some([animation[1] EXCEPT !.running = FALSE])
    /\ screen_overlays' = [screen_overlays EXCEPT
                             ![animation[1].target].opacity = animation[1].end]
    /\ UNCHANGED <<last_active_rect, blur_enabled, blur_overlays, poll_timer,
                   debounce_timer, alive>>
    /\ UNCHANGED <<histvars, groupvars, mappervars, probevars>>

\* time passes up to the next timer deadline; a due timer fires first
Advance ==
    /\ alive
    /\ poll_timer > 0
    /\ ~(debounce_timer.active /\ debounce_timer.remaining = 0)
    /\ LET dt == IF debounce_timer.active
                 THEN Min(poll_timer, debounce_timer.remaining)
                 ELSE poll_timer
       IN /\ poll_timer' = poll_timer - dt
          /\ debounce_timer' = IF debounce_timer.active
                               THEN [debounce_timer EXCEPT !.remaining = @ - dt]
                               ELSE debounce_timer
          /\ since_change' = Min(since_change + dt, AgeCap)
    /\ UNCHANGED <<last_active_rect, blur_enabled, screen_overlays, blur_overlays,
                   animation, alive, sample, burst, settles, cleared>>
    /\ UNCHANGED <<groupvars, mappervars, probevars>>

\* the application: both timers, the fade and the tray's blur toggle
Init == AppInit /\ GroupIdle /\ MapperIdle /\ ProbeIdle

Next ==
    \/ CheckForWindowChanges
    \/ ShowBorderAtFinalPosition
    \/ ToggleBlur
    \/ AnimationFinished
    \/ Advance

Spec == Init /\ [][Next]_vars

\* the tracker driven by the probe and its two timers alone
NextTicks ==
    \/ CheckForWindowChanges
    \/ ShowBorderAtFinalPosition
    \/ AnimationFinished
    \/ Advance

SpecTicks == Init /\ [][NextTicks]_vars

\* check_for_window_changes when a surface call of its clearing loops raises:
\* last_active_rect is already assigned, no try encloses the loops, the
\* exception leaves the slot and PyQt ends the process
CheckForWindowChangesRaises ==
    /\ alive
    /\ poll_timer = 0
    /\ \E current_rect \in ProbeResults :
        /\ Changed(current_rect, last_active_rect)
        /\ last_active_rect' = current_rect
        /\ sample' = current_rect
    /\ alive' = FALSE
    /\ UNCHANGED <<blur_enabled, screen_overlays, blur_overlays, animation,
                   poll_timer, debounce_timer>>
    /\ UNCHANGED <<since_change, burst, settles, cleared>>
    /\ UNCHANGED <<groupvars, mappervars, probevars>>

\* show_border_at_final_position when the first surface call of its loop
\* raises: nothing is placed, no try encloses the loop, the exception leaves
\* the slot and PyQt ends the process
ShowBorderAtFinalPositionRaises ==
    /\ alive
    /\ debounce_timer.active
    /\ debounce_timer.remaining = 0
    /\ Truthy(last_active_rect)
    /\ debounce_timer' = AfterTimeout(debounce_timer)
    /\ alive' = FALSE
    /\ UNCHANGED <<last_active_rect, blur_enabled, screen_overlays, blur_overlays,
                   animation, poll_timer>>
    /\ UNCHANGED <<histvars, groupvars, mappervars, probevars>>

\* the application with surface calls that may raise
NextFaults ==
    \/ CheckForWindowChanges
    \/ CheckForWindowChangesRaises
    \/ ShowBorderAtFinalPosition
    \/ ShowBorderAtFinalPositionRaises
    \/ ToggleBlur
    \/ AnimationFinished
    \/ Advance

SpecFaults == Init /\ [][NextFaults]_vars

----------------------------------------------------------------------------
(* show_outside_rect on its own: one group, called with every pair of      *)
(* rectangles of a small grid and with the 1920 x 1080 scenario            *)

\* the application left idle: nothing sampled, nothing shown
AppIdle == AppInit /\ blur_enabled

SmallRects ==
    { QRect(x, y, w, h) : x \in 0..MaxCoord, y \in 0..MaxCoord,
                          w \in 0..MaxSize, h \in 0..MaxSize }

ScenarioScreen == QRect(0, 0, 1920, 1080)
ScenarioFocus == QRect(100, 100, 800, 600)

\* a group as constructed, or one whose four panels an earlier call left shown
UsedGroup == ShowOutsideRect(NewGroup(Screens), ScenarioScreen, ScenarioFocus)

GroupInit ==
    /\ screen_rect \in SmallRects \cup {ScenarioScreen}
    /\ focus_rect \in SmallRects \cup {ScenarioFocus}
    /\ group \in {NewGroup(Screens), UsedGroup}
    /\ regions = <<>>
    /\ group_op = "init"

\* group.show_outside_rect(screen_rect, focus_rect)
ShowOutsideRectCall ==
    /\ group' = ShowOutsideRect(group, screen_rect, focus_rect)
    /\ regions' = IF EarlyReturn(screen_rect, focus_rect)
                  THEN <<>>
                  ELSE Padded(Regions(screen_rect, focus_rect))
    /\ group_op' = "show_outside_rect"
    /\ UNCHANGED <<screen_rect, focus_rect>>
    /\ UNCHANGED <<appvars, histvars, mappervars, probevars>>

\* group.hide()
HideCall ==
    /\ group' = HideGroup(group)
    /\ group_op' = "hide"
    /\ UNCHANGED <<screen_rect, focus_rect, regions>>
    /\ UNCHANGED <<appvars, histvars, mappervars, probevars>>

NextGroup ==
    \/ ShowOutsideRectCall
    \/ HideCall

InitGroup == AppIdle /\ GroupInit /\ MapperIdle /\ ProbeIdle

SpecGroup == InitGroup /\ [][NextGroup]_vars

----------------------------------------------------------------------------
(* qt_rect_to_ns_rect on its own: a mapper built for any set of attached   *)
(* displays, called with the rectangles of a small grid and the windows    *)

MapperRects ==
    { QRect(x, y, w, h) : x \in (-MaxCoord)..MaxCoord, y \in (-MaxCoord)..MaxCoord,
                          w \in 0..MaxSize, h \in 0..MaxSize }
        \cup WindowRects

MapperInit ==
    /\ displays \in SUBSET AllDisplays
    /\ mapper = NewMapper(displays)
    /\ rect \in MapperRects
    /\ ns_rect = None

\* mapper.qt_rect_to_ns_rect(rect)
QtRectToNsRectCall ==
    /\ ns_rect = None
    /\ ns_rect' = Some(QtRectToNsRect(mapper, rect))
    /\ UNCHANGED <<displays, mapper, rect>>
    /\ UNCHANGED <<appvars, histvars, groupvars, probevars>>

NextMapper == QtRectToNsRectCall

InitMapper == AppIdle /\ GroupIdle /\ MapperInit /\ ProbeIdle

SpecMapper == InitMapper /\ [][NextMapper]_vars

----------------------------------------------------------------------------
(* get_active_window_geometry on its own: called on every window list of up *)
(* to MaxWindows windows, with and without an active application           *)

\* process 1 is the active application's, process 2 another's
Pids == {1, 2}

Windows ==
    [ kCGWindowOwnerPID : Pids,
      kCGWindowLayer : {0, 25},
      kCGWindowAlpha : {0, 100},
      kCGWindowBounds : [X : {-1}, Y : {41}, Width : {99, 100}, Height : {99, 101}] ]

ProbeInit ==
    /\ active_app \in {None, Some([pid |-> None]), Some([pid |-> Some(1)])}
    /\ window_list \in UNION { [1..n -> Windows] : n \in 0..MaxWindows }
    /\ geometry_dict = None
    /\ probe_op = "init"

\* get_active_window_geometry()
GetActiveWindowGeometryCall ==
    /\ probe_op = "init"
    /\ geometry_dict' = GetActiveWindowGeometry(active_app, window_list)
    /\ probe_op' = "get_active_window_geometry"
    /\ UNCHANGED <<active_app, window_list>>
    /\ UNCHANGED <<appvars, histvars, groupvars, mappervars>>

NextProbe == GetActiveWindowGeometryCall

InitProbe == AppIdle /\ GroupIdle /\ MapperIdle /\ ProbeInit

SpecProbe == InitProbe /\ [][NextProbe]_vars

----------------------------------------------------------------------------
(* show_border_at_final_position on its own: the method run, and run again, *)
(* on an application a poll tick has just cleared for the rectangle it      *)
(* holds in last_active_rect                                               *)

\* the fade has run to its end: AnimationFinished as an operator
FadeDone(overlays, anim) ==
    IF anim # None
    THEN [overlays EXCEPT ![anim[1].target].opacity = anim[1].end]
    ELSE overlays

\* the surfaces after an earlier rectangle was settled, its fade perhaps
\* over, and a poll tick then hid everything
SettleInit ==
    /\ last_active_rect \in ProbeResults
    /\ blur_enabled \in BOOLEAN
    /\ \E prev \in ProbeResults, enabled \in BOOLEAN, faded \in BOOLEAN :
          LET borders0 == [s \in Screens |-> NewBorderOverlay(s)]
              groups0 == [s \in Screens |-> NewGroup(Screens)]
              anim == IF prev = None THEN None
                      ELSE SettledAnimation(None, prev[1])
              borders == IF prev = None THEN borders0
                         ELSE SettledBorders(borders0, prev[1])
              groups == IF prev = None THEN groups0
                        ELSE SettledBlur(groups0, prev[1], enabled)
          IN /\ screen_overlays =
                  [s \in Screens |->
                      HideOverlay(IF faded THEN FadeDone(borders, anim)[s]
                                  ELSE borders[s])]
             /\ blur_overlays = [s \in Screens |-> HideGroup(groups[s])]
             /\ animation = IF faded /\ anim # None
                            THEN Some([anim[1] EXCEPT !.running = FALSE])
                            ELSE anim
    /\ poll_timer = PollPeriod
    /\ debounce_timer = StoppedTimer
    /\ alive = TRUE
    /\ sample = last_active_rect
    /\ since_change = DEBOUNCE_DELAY
    /\ burst = 1
    /\ settles = 0
    /\ cleared = TRUE

\* self.show_border_at_final_position()
ShowBorderCall ==
    /\ ShowBorderBody
    /\ UNCHANGED <<last_active_rect, blur_enabled, poll_timer, debounce_timer,
                   alive, sample, since_change, burst>>
    /\ UNCHANGED <<groupvars, mappervars, probevars>>

NextSettle ==
    \/ ShowBorderCall
    \/ AnimationFinished

InitSettle == SettleInit /\ GroupIdle /\ MapperIdle /\ ProbeIdle

SpecSettle == InitSettle /\ [][NextSettle]_vars

----------------------------------------------------------------------------
(* Vocabulary of the properties *)

\* a poll tick: the step that runs check_for_window_changes
PollTick == poll_timer = 0 /\ poll_timer' = PollPeriod

\* the debounce timer fires: the step that runs show_border_at_final_position
DebounceFires == debounce_timer.active /\ ~debounce_timer'.active

\* a settle event: the timer fires and the placement pass runs
SettleEvent == DebounceFires /\ Truthy(last_active_rect)

\* the running fade reaches its end value: the step AnimationFinished
FadeEnds == /\ animation # None /\ animation[1].running
            /\ animation' # None /\ ~animation'[1].running

NonEmpty(r) == r.w > 0 /\ r.h > 0

\* the unit cells a rectangle covers
Cells(r) == { <<i, j>> : i \in r.x..(r.x + r.w - 1), j \in r.y..(r.y + r.h - 1) }

\* inner lies within outer
Within(inner, outer) ==
    /\ outer.x <= inner.x /\ inner.x + inner.w <= outer.x + outer.w
    /\ outer.y <= inner.y /\ inner.y + inner.h <= outer.y + outer.h

\* inner lies within outer and touches none of its edges
StrictlyWithin(inner, outer) ==
    /\ outer.x < inner.x /\ inner.x + inner.w < outer.x + outer.w
    /\ outer.y < inner.y /\ inner.y + inner.h < outer.y + outer.h

\* two non-empty rectangles share no cell
Disjoint(a, b) ==
    \/ a.x + a.w <= b.x \/ b.x + b.w <= a.x
    \/ a.y + a.h <= b.y \/ b.y + b.h <= a.y

ShownPanels(grp) == { i \in 1..NumPanels : grp.panels[i].visible }

\* the group shows exactly one panel, the first, over the whole of r
WholeScreenBlurred(grp, r) ==
    /\ ShownPanels(grp) = {1}
    /\ grp.panels[1].frame = QtRectToNsRect(grp.mapper, r)

NoBlurVisible == \A s \in Screens : ShownPanels(blur_overlays[s]) = {}

----------------------------------------------------------------------------
C2_FocusLost ==
    [][ /\ (sample' = None => AllHidden')
        /\ (PollTick /\ sample = None /\ sample' = None
              => UNCHANGED <<last_active_rect, blur_enabled, screen_overlays,
                             blur_overlays, animation, debounce_timer>>)
        /\ (DebounceFires /\ sample = None
              => ~SettleEvent /\ UNCHANGED <<screen_overlays, blur_overlays, animation>>)
        /\ (SettleEvent => sample # None /\ since_change >= DEBOUNCE_DELAY)
      ]_vars

(* C3  Placement only from the stable rectangle.  After every step, a       *)
(* visible border surface is framed at the rectangle of the latest sample   *)
(* and a visible blur surface implies a non-null latest sample; and         *)
(* surfaces are placed only for a sample that has been unchanged for D.     *)
C3_PlacementFromStable ==
    [][ /\ \A s \in Screens :
              /\ screen_overlays'[s].visible
                   => sample' # None /\ screen_overlays'[s].geometry = sample'[1]
              /\ ShownPanels(blur_overlays'[s]) # {} => sample' # None
        /\ (SettleEvent => since_change >= DEBOUNCE_DELAY)
      ]_vars

(* C4  Clear on change.  A poll tick whose sample differs from the sample   *)
(* of the tick before leaves every border surface and all four blur         *)
(* surfaces of every display hidden, whatever blur_enabled and the new      *)
(* sample are; hidden surfaces become visible only when the debounce timer  *)
(* fires.                                                                   *)
C4_ClearOnChange ==
    [][ /\ (PollTick /\ sample' # sample => AllHidden')
        /\ (AllHidden /\ ~AllHidden' => DebounceFires)
      ]_vars

(* C5  Partition coverage.  After show_outside_rect(outer, inner) with a    *)
(* non-empty inner within outer: four regions at most, a panel is shown     *)
(* exactly for each non-empty region and framed on it, the shown regions    *)
(* cover exactly the cells of outer that are not in inner, and no two of    *)
(* them share a cell.                                                       *)
C5_PartitionCoverage ==
    (/\ group_op = "show_outside_rect"
     /\ screen_rect \in SmallRects /\ focus_rect \in SmallRects
     /\ NonEmpty(focus_rect) /\ Within(focus_rect, screen_rect))
    => /\ Len(regions) <= 4
       /\ \A i \in 1..Len(regions) : group.panels[i].visible <=> NonEmpty(regions[i])
       /\ ShownPanels(group) \subseteq 1..Len(regions)
       /\ \A i \in ShownPanels(group) :
             group.panels[i].frame = QtRectToNsRect(group.mapper, regions[i])
       /\ UNION { Cells(regions[i]) : i \in ShownPanels(group) }
             = Cells(screen_rect) \ Cells(focus_rect)
       /\ \A i, j \in ShownPanels(group) :
             i # j => Cells(regions[i]) \cap Cells(regions[j]) = {}

\* an inner rectangle with room on all four sides: four strips are shown
C5_Witness ==
    /\ group_op = "show_outside_rect"
    /\ screen_rect \in SmallRects /\ focus_rect \in SmallRects
    /\ NonEmpty(focus_rect) /\ StrictlyWithin(focus_rect, screen_rect)
    /\ ShownPanels(group) = 1..NumPanels

(* C6  Partition fallback, disjoint.  After show_outside_rect(outer, inner) *)
(* with both non-empty and sharing no cell, the regions are outer alone:    *)
(* the first panel is shown over the whole of outer, the other three are    *)
(* hidden.                                                                  *)
C6_FallbackDisjoint ==
    (/\ group_op = "show_outside_rect"
     /\ NonEmpty(screen_rect) /\ NonEmpty(focus_rect)
     /\ Disjoint(focus_rect, screen_rect))
    => /\ regions = <<screen_rect, NullRect, NullRect, NullRect>>
       /\ WholeScreenBlurred(group, screen_rect)

\* disjoint rectangles, and one panel over the whole of outer
C6_Witness ==
    /\ group_op = "show_outside_rect"
    /\ NonEmpty(screen_rect) /\ NonEmpty(focus_rect)
    /\ Disjoint(focus_rect, screen_rect)
    /\ ShownPanels(group) = {1}

(* C7 as stated  Partition fallback, empty inner.  After                    *)
(* show_outside_rect(outer, inner) with inner of zero width and height and  *)
(* outer non-empty, the regions are outer alone and one panel covers it.    *)
C7_FallbackEmptyInner ==
    (/\ group_op = "show_outside_rect"
     /\ IsNull(focus_rect) /\ NonEmpty(screen_rect))
    => /\ regions = <<screen_rect, NullRect, NullRect, NullRect>>
       /\ WholeScreenBlurred(group, screen_rect)

(* C7 amended  After show_outside_rect(outer, inner) with outer non-empty:  *)
(* an inner of zero width and height yields no region and all four panels   *)
(* hidden; an inner empty in one dimension only yields outer alone, one     *)
(* panel covering it.                                                       *)
C7_EmptyInnerAmended ==
    (group_op = "show_outside_rect" /\ NonEmpty(screen_rect))
    => /\ IsNull(focus_rect) => regions = <<>> /\ ShownPanels(group) = {}
       /\ (~NonEmpty(focus_rect) /\ ~IsNull(focus_rect))
            => /\ regions = <<screen_rect, NullRect, NullRect, NullRect>>
               /\ WholeScreenBlurred(group, screen_rect)

\* a null inner rectangle handed to a non-empty outer: everything hidden
C7_Witness ==
    /\ group_op = "show_outside_rect"
    /\ IsNull(focus_rect) /\ NonEmpty(screen_rect)
    /\ ShownPanels(group) = {}

(* C8  Fixed strip order and formulas.  After show_outside_rect(outer,      *)
(* inner) with inner strictly inside outer, panels 0..3 are shown on the    *)
(* top, bottom, left and right strip in that order, each as the formula     *)
(* gives it; for outer (0,0,1920,1080) and inner (100,100,800,600) the      *)
(* regions are (0,0,1920,100), (0,700,1920,380), (0,100,100,600) and        *)
(* (900,100,1020,600).                                                      *)
C8_StripOrder ==
    /\ (/\ group_op = "show_outside_rect"
        /\ NonEmpty(focus_rect) /\ StrictlyWithin(focus_rect, screen_rect))
       => LET outer == screen_rect
              inner == focus_rect
              strips ==
                << QRect(outer.x, outer.y, outer.w, inner.y - outer.y),
                   QRect(outer.x, inner.y + inner.h, outer.w,
                         (outer.y + outer.h) - (inner.y + inner.h)),
                   QRect(outer.x, inner.y, inner.x - outer.x, inner.h),
                   QRect(inner.x + inner.w, inner.y,
                         (outer.x + outer.w) - (inner.x + inner.w), inner.h) >>
          IN /\ regions = strips
             /\ \A i \in 1..NumPanels :
                   /\ NonEmpty(strips[i])
                   /\ group.panels[i] =
                        [visible |-> TRUE,
                         frame |-> QtRectToNsRect(group.mapper, strips[i])]
    /\ (/\ group_op = "show_outside_rect"
        /\ screen_rect = ScenarioScreen /\ focus_rect = ScenarioFocus)
       => regions = << QRect(0, 0, 1920, 100), QRect(0, 700, 1920, 380),
                       QRect(0, 100, 100, 600), QRect(900, 100, 1020, 600) >>

\* the 1920 x 1080 scenario has been run
C8_Witness ==
    /\ group_op = "show_outside_rect"
    /\ screen_rect = ScenarioScreen /\ focus_rect = ScenarioFocus
    /\ ShownPanels(group) = 1..NumPanels

(* C9  Full-area focus.  A settle event for a rectangle that covers the     *)
(* usable area of its owning display leaves no blur surface visible on any  *)
(* display and the owning display's border shown, framed at the rectangle.  *)
C9_FullAreaFocus ==
    [][ SettleEvent =>
          LET r == last_active_rect[1]
              owner == ScreenAt(Center(r))
          IN (owner # NoScreen /\ Within(AvailableGeometry(owner), r))
             => /\ NoBlurVisible'
                /\ screen_overlays'[owner].visible
                /\ screen_overlays'[owner].geometry = r
      ]_vars

\* blur is on, a border frames a rectangle covering the usable area
C9_Witness ==
    /\ blur_enabled
    /\ \E s \in Screens :
          /\ screen_overlays[s].visible
          /\ Within(AvailableGeometry(s), screen_overlays[s].geometry)
    /\ NoBlurVisible

(* C10  Mapping reflection.  With both unions anchored at (0,0) and of      *)
(* equal size (Uw, Uh), qt_rect_to_ns_rect(r) has x = r.x, the width and    *)
(* height of r, and y = Uh - r.y - r.height, so that its vertical centre is *)
(* Uh less the vertical centre of r (stated doubled, the halves cleared).   *)
C10_MappingReflection ==
    (/\ ns_rect # None
     /\ mapper.qt_union.x = 0 /\ mapper.qt_union.y = 0
     /\ mapper.ns_union.x = 0 /\ mapper.ns_union.y = 0
     /\ mapper.qt_union.w = mapper.ns_union.w
     /\ mapper.qt_union.h = mapper.ns_union.h)
    => LET out == ns_rect[1]
           Uh == mapper.qt_union.h
       IN /\ out.x = rect.x
          /\ out.w = rect.w
          /\ out.h = rect.h
          /\ 2 * out.y + out.h = 2 * Uh - (2 * rect.y + rect.h)
          /\ out.y = Uh - rect.y - rect.h

\* displays are attached, the unions are aligned, a window has been mapped
C10_Witness ==
    /\ ns_rect # None
    /\ displays # {}
    /\ mapper.qt_union = mapper.ns_union
    /\ mapper.qt_union.x = 0 /\ mapper.qt_union.y = 0
    /\ rect \in WindowRects
    /\ ns_rect[1].y # rect.y

C12_IdempotentSettle ==
    [][ (settles >= 1 /\ ~FadeEnds)
        => LET owner == ScreenAt(Center(last_active_rect[1]))
           IN /\ \A s \in Screens :
                   /\ screen_overlays'[s].visible = screen_overlays[s].visible
                   /\ screen_overlays'[s].geometry = screen_overlays[s].geometry
              /\ blur_overlays' = blur_overlays
              /\ owner # NoScreen
                   => /\ Len(animation) = 1 /\ Len(animation') = 1
                      /\ animation'[1] = [animation[1] EXCEPT !.running = TRUE]
                      /\ animation'[1].target = owner
                      /\ screen_overlays'[owner].opacity = 0
                      /\ (animation[1].running =>
                            /\ screen_overlays' = screen_overlays
                            /\ animation' = animation)
              /\ owner = NoScreen
                   => /\ screen_overlays' = screen_overlays
                      /\ animation' = animation
      ]_vars

\* the method has run twice on a window of display 1 with blur on: its
\* border and blur strips are shown and one fade is running
C12_Witness ==
    /\ settles = 2
    /\ blur_enabled
    /\ last_active_rect = Some(QRect(40, 50, 100, 60))
    /\ screen_overlays[1].visible
    /\ screen_overlays[1].geometry = QRect(40, 50, 100, 60)
    /\ ShownPanels(blur_overlays[1]) = 1..NumPanels
    /\ Len(animation) = 1 /\ animation[1].running

(* C13  Owning display.  A settle event for rectangle R leaves the border   *)
(* of the display containing R's centre visible and framed exactly at R,    *)
(* and the border and every blur panel of each other display hidden, with   *)
(* blur on or off; when no display contains the centre it leaves every      *)
(* surface of every display hidden.                                         *)
C13_OwningDisplay ==
    [][ SettleEvent =>
          LET r == last_active_rect[1]
              owner == ScreenAt(Center(r))
          IN /\ owner # NoScreen
                  => /\ Contains(Geometry(owner), Center(r))
                     /\ screen_overlays'[owner].visible
                     /\ screen_overlays'[owner].geometry = r
             /\ \A s \in Screens \ {owner} :
                   /\ ~screen_overlays'[s].visible
                   /\ ShownPanels(blur_overlays'[s]) = {}
             /\ owner = NoScreen => AllHidden'
      ]_vars

\* a window of display 2 is settled with blur on, border and blur on display
\* 2 alone, after display 1's border had framed an earlier window
C13_Witness ==
    /\ blur_enabled
    /\ settles >= 1
    /\ last_active_rect = Some(QRect(230, 40, 120, 80))
    /\ screen_overlays[2].visible
    /\ screen_overlays[2].geometry = QRect(230, 40, 120, 80)
    /\ ShownPanels(blur_overlays[2]) # {}
    /\ ~screen_overlays[1].visible
    /\ screen_overlays[1].geometry # Geometry(1)
    /\ ShownPanels(blur_overlays[1]) = {}

(* C14  Surface-placement failure is not fatal.  No step ends the event     *)
(* loop: an exception raised by a surface call during a poll tick or a      *)
(* debounce callback is caught where the call is made, and the timers keep  *)
(* running.                                                                 *)
C14_PlacementFailureNotFatal ==
    [][ alive => alive' ]_vars

(* C15  Probe filtering.  get_active_window_geometry returns the bounds, as *)
(* integers, of the first window of the list that the active process owns,  *)
(* is on layer 0, has non-zero alpha and is at least 50 wide and 50 high;   *)
(* it returns None when there is no such window, no active application, no  *)
(* pid or an empty list; a rectangle it returns is at least 50 x 50.        *)
C15_ProbeFiltering ==
    probe_op = "get_active_window_geometry"
    => LET Qualifies(w) ==
               /\ active_app # None
               /\ active_app[1].pid # None
               /\ w.kCGWindowOwnerPID = active_app[1].pid[1]
               /\ w.kCGWindowLayer = 0
               /\ w.kCGWindowAlpha # 0
               /\ w.kCGWindowBounds.Width >= 2 * MinWindowSize
               /\ w.kCGWindowBounds.Height >= 2 * MinWindowSize
           found == { i \in 1..Len(window_list) : Qualifies(window_list[i]) }
       IN IF found = {}
          THEN geometry_dict = None
          ELSE LET first == CHOOSE i \in found : \A j \in found : i <= j
                   bounds == window_list[first].kCGWindowBounds
               IN /\ geometry_dict # None
                  /\ 2 * geometry_dict[1].x <= bounds.X + 1
                  /\ 2 * geometry_dict[1].x >= bounds.X - 1
                  /\ 2 * geometry_dict[1].y <= bounds.Y
                  /\ 2 * geometry_dict[1].y > bounds.Y - 2
                  /\ 2 * geometry_dict[1].w <= bounds.Width
                  /\ 2 * geometry_dict[1].w > bounds.Width - 2
                  /\ 2 * geometry_dict[1].h <= bounds.Height
                  /\ 2 * geometry_dict[1].h > bounds.Height - 2
                  /\ geometry_dict[1].w >= MinWindowSize
                  /\ geometry_dict[1].h >= MinWindowSize

\* the active process's first window is too narrow, its second is returned
C15_Witness ==
    /\ probe_op = "get_active_window_geometry"
    /\ Len(window_list) = 2
    /\ window_list[1].kCGWindowOwnerPID = 1
    /\ window_list[1].kCGWindowLayer = 0
    /\ window_list[1].kCGWindowAlpha # 0
    /\ window_list[1].kCGWindowBounds.Width < 2 * MinWindowSize
    /\ window_list[1].kCGWindowBounds.Height >= 2 * MinWindowSize
    /\ window_list[2].kCGWindowBounds.Height = 101
    /\ geometry_dict = Some(QRect(0, 20, 50, 50))

\* every surface that is visible stays visible, on the same frame
SurfacesStay ==
    \A s \in Screens :
        /\ screen_overlays[s].visible
             => /\ screen_overlays'[s].visible
                /\ screen_overlays'[s].geometry = screen_overlays[s].geometry
        /\ \A i \in ShownPanels(blur_overlays[s]) :
              blur_overlays'[s].panels[i] = blur_overlays[s].panels[i]

(* C16 as stated  Unchanged sample is a no-op.  A poll tick whose sample    *)
(* equals the sample of the tick before leaves last_active_rect, every      *)
(* border and blur surface and the debounce timer unchanged, so that the    *)
(* surfaces that are visible stay visible.                                  *)
C16_UnchangedSampleNoOp ==
    [][ (PollTick /\ sample' = sample)
          => /\ UNCHANGED <<last_active_rect, screen_overlays, blur_overlays,
                            debounce_timer>>
             /\ SurfacesStay
      ]_vars

(* C16 amended  A poll tick whose sample equals last_active_rect (the       *)
(* sample of the tick before, or none once toggle_blur(True) has reset it)  *)
(* leaves last_active_rect, every border and blur surface and the debounce  *)
(* timer unchanged; and while the sample stays the same and blur is not     *)
(* toggled, visible surfaces stay visible.                                  *)
C16_UnchangedNoOpAmended ==
    [][ /\ (PollTick /\ sample' = last_active_rect)
             => UNCHANGED <<last_active_rect, screen_overlays, blur_overlays,
                            debounce_timer>>
        /\ (sample' = sample /\ last_active_rect = sample
              /\ blur_enabled' = blur_enabled)
             => SurfacesStay
      ]_vars

\* a settled window sampled again, its border and blur strips still shown
C16_Witness ==
    /\ sample # None
    /\ last_active_rect = sample
    /\ since_change = AgeCap
    /\ poll_timer = PollPeriod
    /\ ~debounce_timer.active
    /\ \E s \in Screens :
          /\ screen_overlays[s].visible
          /\ screen_overlays[s].geometry = sample[1]
          /\ ShownPanels(blur_overlays[s]) # {}

(* C17 as stated  Idle has no pending work.  In every state where the       *)
(* latest sample is none the debounce timer is not armed.                   *)
C17_IdleNoPendingTimer ==
    sample = None => ~debounce_timer.active

(* C17 amended  A poll tick that samples none leaves the debounce timer as  *)
(* it was: it arms nothing and cancels nothing.  A timer that is armed      *)
(* while the latest sample is none was armed by an earlier sample and has   *)
(* at most D - P left; when it fires in such a state nothing is placed and  *)
(* the timer is unarmed.                                                    *)
C17_IdleAmended ==
    [][ /\ (PollTick /\ sample' = None) => debounce_timer' = debounce_timer
        /\ (sample' = None /\ debounce_timer'.active)
             => debounce_timer'.remaining <= DEBOUNCE_DELAY - PollPeriod
        /\ (DebounceFires /\ sample = None)
             => /\ ~SettleEvent
                /\ ~debounce_timer'.active
                /\ UNCHANGED <<last_active_rect, screen_overlays, blur_overlays,
                               animation>>
      ]_vars

\* a tick has just sampled none while the timer an earlier window armed is
\* still pending
C17_Witness ==
    /\ sample = None
    /\ since_change = 0
    /\ last_active_rect = None
    /\ debounce_timer = [active |-> TRUE, remaining |-> DEBOUNCE_DELAY - PollPeriod]
    /\ AllHidden

\* the step that runs toggle_blur(False)
BlurSwitchedOff == blur_enabled /\ ~blur_enabled'

(* C18  Blur disabled means no blur.  In every state with blur_enabled      *)
(* false no blur panel of any display is visible; and toggle_blur(False)    *)
(* hides every blur panel in its own step and leaves the border surfaces,   *)
(* last_active_rect and the debounce timer unchanged.                       *)
C18_BlurDisabledNoBlur ==
    [][ /\ ~blur_enabled => NoBlurVisible
        /\ ~blur_enabled' => NoBlurVisible'
        /\ BlurSwitchedOff
             => /\ NoBlurVisible'
                /\ UNCHANGED <<screen_overlays, last_active_rect, debounce_timer>>
      ]_vars

\* blur was switched off over a settled window: its border is still shown,
\* the blur panels that had been placed on its display are hidden
C18_Witness ==
    /\ ~blur_enabled
    /\ last_active_rect # None
    /\ \E s \in Screens :
          /\ screen_overlays[s].visible
          /\ screen_overlays[s].geometry = last_active_rect[1]
          /\ blur_overlays[s].panels[1].frame # NewPanel.frame
    /\ NoBlurVisible

\* the step that runs toggle_blur(True)
BlurSwitchedOn == ~blur_enabled /\ blur_enabled'

\* rectangle r is settled with blur: no timer pending, its border shown on
\* the display that owns it and that display's blur panels on the non-empty
\* strips around it
SettledWithBlur(r) ==
    LET owner == ScreenAt(Center(r))
        strips == Padded(Regions(AvailableGeometry(owner), r))
    IN /\ ~debounce_timer.active
       /\ owner # NoScreen
            => /\ screen_overlays[owner].visible
               /\ screen_overlays[owner].geometry = r
               /\ ShownPanels(blur_overlays[owner])
                    = { i \in 1..NumPanels : NonEmpty(strips[i]) }
               /\ \A i \in ShownPanels(blur_overlays[owner]) :
                     blur_overlays[owner].panels[i].frame
                       = QtRectToNsRect(blur_overlays[owner].mapper, strips[i])

(* C19  Blur enable forces a refresh.  toggle_blur(True) resets             *)
(* last_active_rect to none and hides nothing; the next poll tick that      *)
(* samples the same rectangle R again hides every surface and arms the      *)
(* debounce timer with D; a debounce timer firing before that tick places   *)
(* nothing; and the timer armed by that tick ends, D later, in a settle:    *)
(* with blur on, whenever a rectangle is held and no timer is pending, its  *)
(* border and its blur panels are shown.                                    *)
C19_BlurEnableRefresh ==
    [][ /\ BlurSwitchedOn
             => /\ last_active_rect' = None
                /\ UNCHANGED <<screen_overlays, blur_overlays, debounce_timer>>
        /\ (PollTick /\ last_active_rect = None
              /\ sample # None /\ sample' = sample)
             => /\ AllHidden'
                /\ last_active_rect' = sample
                /\ debounce_timer' = [active |-> TRUE, remaining |-> DEBOUNCE_DELAY]
        /\ (DebounceFires /\ last_active_rect = None)
             => UNCHANGED <<screen_overlays, blur_overlays, animation>>
        /\ (DebounceFires /\ last_active_rect # None)
             => since_change >= DEBOUNCE_DELAY
        /\ (blur_enabled /\ last_active_rect # None /\ ~debounce_timer.active)
             => SettledWithBlur(last_active_rect[1])
      ]_vars

\* blur was switched on over a settled window and the refresh has run: the
\* border and the blur strips are shown without the sample having changed
C19_Witness ==
    /\ blur_enabled
    /\ settles = 2
    /\ last_active_rect = Some(QRect(40, 50, 100, 60))
    /\ SettledWithBlur(QRect(40, 50, 100, 60))
    /\ ShownPanels(blur_overlays[1]) = 1..NumPanels

\* a clear event: a poll tick that takes its change branch and hides everything
ClearEvent == PollTick /\ last_active_rect' # last_active_rect

(* C20  Clear precedes every settle.  A settle event happens only after a   *)
(* clear event that no other settle event has followed, and starts with     *)
(* every border and blur surface hidden; a clear event leaves every         *)
(* surface hidden.                                                          *)
C20_ClearPrecedesSettle ==
    [][ /\ SettleEvent => (cleared /\ AllHidden)
        /\ SettleEvent => ~cleared'
        /\ ClearEvent => (cleared' /\ AllHidden')
        /\ (~cleared /\ cleared') => ClearEvent
      ]_vars

\* a second settle of the same window, after the clear that a blur enable
\* forced in between
C20_Witness ==
    /\ settles = 2
    /\ ~cleared
    /\ last_active_rect = sample
    /\ \E s \in Screens : screen_overlays[s].visible

====
